---- MODULE Spec2Model ----
(***************************************************************************)
(* Model of components/server/src/websocket/websocket-connection-manager.ts *)
(*                                                                         *)
(* WebsocketConnectionManager keeps a registry (contexts) of               *)
(* WebsocketClientContext objects keyed by client id; every connection     *)
(* gets its own GitpodServerImpl endpoint registered in the context of its *)
(* client.  GitpodJsonRpcProxyFactory.onRequest is the per-call pipeline:  *)
(* metrics, trace span, rate limiting, access guard, dispatch.             *)
(***************************************************************************)
EXTENDS Integers, Sequences, FiniteSets, TLC

\* ---------------------------------------------------------------- bounds
\* connections of the lifecycle specification (Spec)
MaxConns == 3
\* connections of the pipeline specification (SpecPipeline)
PipeConns == 1
\* call slots (calls in flight at once) of the pipeline specification
MaxCalls == 2
\* connections of the fault specification (SpecFaults)
FaultConns == 2
\* connections of the quota specification (SpecQuota), all of one identity
QuotaConns == 2
\* calls per window the rate limiter lets through (RateLimiterConfig points)
PointsLimit == 2

\* the larger of two numbers
Max(a, b) == IF a > b THEN a ELSE b

\* every connection any specification can open
Conns == 1..Max(Max(MaxConns, FaultConns), Max(PipeConns, QuotaConns))
Calls == 1..MaxCalls

\* ------------------------------------------------------- request contexts
\* a missing value (JavaScript undefined)
Undefined == "<undefined>"

\* a falsy string: undefined or the empty string
Falsy(v) == v \in {Undefined, ""}

Methods == {"getWorkspace", "deleteWorkspace"}

\* the optional function guard a request carries (WithFunctionAccessGuard):
\* absent, or a guard that allows the listed methods only
NoFunctionGuard == [defined |-> FALSE, allow |-> {}]
ReadOnlyGuard == [defined |-> TRUE, allow |-> {"getWorkspace"}]

\* the express requests connections arrive with
Requests ==
    [user : {Undefined, "u1"}, session : {Undefined, "s1"},
     functionGuard : {NoFunctionGuard}]

\* the requests the pipeline specification opens connections with
PipeRequests ==
    { [user |-> "u1", session |-> "s1", functionGuard |-> NoFunctionGuard],
      [user |-> Undefined, session |-> "s1", functionGuard |-> ReadOnlyGuard] }

\* the request the quota specification opens connections with: one
\* identity, whose function guard allows getWorkspace only
QuotaRequests ==
    { [user |-> "u1", session |-> "s1", functionGuard |-> ReadOnlyGuard] }

NoRequest == [user |-> Undefined, session |-> Undefined, functionGuard |-> NoFunctionGuard]

\* ------------------------------------------------------- ClientMetadata
\* a resolution that looks at the session before the user
From_SessionFirst(userId, sessionId) ==
    IF ~Falsy(sessionId)
    THEN [id |-> "session-" \o sessionId, authLevel |-> "session",
          userId |-> userId, sessionId |-> sessionId]
    ELSE IF ~Falsy(userId)
    THEN [id |-> userId, authLevel |-> "user", userId |-> userId, sessionId |-> sessionId]
    ELSE [id |-> "anonymous", authLevel |-> "anonymous",
          userId |-> userId, sessionId |-> sessionId]

\* ClientMetadata.from(userId, sessionId)
From(userId, sessionId) ==
    IF ~Falsy(userId)
    THEN [id |-> userId, authLevel |-> "user", userId |-> userId, sessionId |-> sessionId]
    ELSE IF ~Falsy(sessionId)
    THEN [id |-> "session-" \o sessionId, authLevel |-> "session",
          userId |-> userId, sessionId |-> sessionId]
    ELSE [id |-> "anonymous", authLevel |-> "anonymous",
          userId |-> userId, sessionId |-> sessionId]

\* ClientMetadata.fromRequest(req)
FromRequest(req) == From(req.user, req.session)

\* String.prototype.startsWith
StartsWith(str, prefix) ==
    /\ Len(str) >= Len(prefix)
    /\ SubSeq(str, 1, Len(prefix)) = prefix

\* WebsocketClientType.getClientType: the client type of a user-agent header
GetClientType(userAgent) ==
    IF Falsy(userAgent) THEN Undefined
    ELSE IF StartsWith(userAgent, "Go-http-client") THEN "go-client"
    ELSE IF StartsWith(userAgent, "Mozilla") THEN "browser"
    ELSE IF StartsWith(userAgent, "VS Code") THEN "vs-code"
    ELSE Undefined

\* ClientMetadata.from(userId, sessionId, type): the metadata with its type
FromWithType(userId, sessionId, type) ==
    From(userId, sessionId) @@ [type |-> type]

\* the user ids, session ids and user-agent headers identity resolution is
\* applied to
MetaUsers == {Undefined, "", "u1", "u2"}
MetaSessions == {Undefined, "", "s1", "s2"}
UserAgents == {Undefined, "Mozilla/5.0", "Go-http-client/1.1", "VS Code/1.60", "curl/7.79"}

\* the client ids the requests resolve to
ClientIds == { FromRequest(r).id : r \in Requests \cup PipeRequests }

\* ---------------------------------------------------------------- state
VARIABLES
    conn,        \* per connection: its state, request, context object, server
    servers,     \* per context object: WebsocketClientContext.servers
    clientId,    \* per context object: WebsocketClientContext.clientId
    contexts,    \* WebsocketConnectionManager.contexts: client id -> context object
    emitted,     \* per context object: the context events emitted for it
    steps,       \* the steps of the latest connection handler run, in order
    call,        \* per call slot: one onRequest invocation
    points,      \* UserRateLimiter: limiter key -> points consumed in the window
    window,      \* client id -> calls consumed and dispatched in the window
    notified,    \* the latest inbound notification and what became of it
    resolved     \* the client metadata resolved from the latest two requests

vars == <<conn, servers, clientId, contexts, emitted, steps, call,
          points, window, notified, resolved>>

\* the state of the rate limiter and of its dispatch count
limiterVars == <<points, window>>

\* the state of the connections and of the registry
registryVars == <<conn, servers, clientId, contexts, emitted, steps>>

\* the context objects constructed so far (new WebsocketClientContext)
Objects == 1..Len(servers)

NoObject == 0

NewConn ==
    [state |-> "new", req |-> NoRequest, ctx |-> NoObject,
     disposed |-> 0, created |-> 0, closed |-> 0]

\* the uuid of the GitpodServerImpl serving connection c
Uuid(c) == c

\* ------------------------------------------------- WebsocketClientContext
\* Array.prototype.findIndex(s => s.uuid === uuid), 0-based, -1 when absent
FindIndex(list, uuid) ==
    IF \E i \in 1..Len(list) : list[i] = uuid
    THEN (CHOOSE i \in 1..Len(list) :
            /\ list[i] = uuid
            /\ \A j \in 1..(i - 1) : list[j] # uuid) - 1
    ELSE -1

\* Array.prototype.splice(index) with one argument: removes every element
\* from index to the end of the array
Splice(list, index) == SubSeq(list, 1, index)

\* WebsocketClientContext.addEndpoint
AddEndpoint(list, uuid) == Append(list, uuid)

\* WebsocketClientContext.removeEndpoint
RemoveEndpoint(list, uuid) ==
    LET index == FindIndex(list, uuid)
    IN  IF index # -1 THEN Splice(list, index) ELSE list

\* WebsocketClientContext.hasNoEndpointsLeft
HasNoEndpointsLeft(list) == Len(list) = 0

\* ------------------------------------------------------------- registry
\* Map.get: the context object under id, NoObject when there is none
MapGet(map, id) == IF id \in DOMAIN map THEN map[id] ELSE NoObject

\* Map.set
MapSet(map, id, o) == [k \in DOMAIN map \cup {id} |-> IF k = id THEN o ELSE map[k]]

\* Map.delete
MapDelete(map, id) == [k \in DOMAIN map \ {id} |-> map[k]]

NoEvents == [created |-> 0, closed |-> 0]

\* WebsocketConnectionManager.getOrCreateClientContext: the context object
\* and the registry state it leaves behind
GetOrCreateClientContext(req) ==
    LET metadata == FromRequest(req)
        found == MapGet(contexts, metadata.id)
        fresh == Len(servers) + 1
    IN  IF found = NoObject
        THEN [ctx |-> fresh,
              servers |-> Append(servers, <<>>),
              clientId |-> Append(clientId, metadata.id),
              contexts |-> MapSet(contexts, metadata.id, fresh),
              emitted |-> Append(emitted, [NoEvents EXCEPT !.created = 1]),
              steps |-> <<"contexts.set", "emit CLIENT_CONTEXT_CREATED">>]
        ELSE [ctx |-> found, servers |-> servers, clientId |-> clientId,
              contexts |-> contexts, emitted |-> emitted, steps |-> <<>>]

\* ------------------------------------------------- connection lifecycle
\* a target factory that emits "connection created" before it registers
\* the endpoint
OnConnection_EmitBeforeRegister(c, req) ==
    /\ conn[c].state = "new"
    /\ LET got == GetOrCreateClientContext(req)
       IN  /\ servers' = [got.servers EXCEPT ![got.ctx] = AddEndpoint(@, Uuid(c))]
           /\ clientId' = got.clientId
           /\ contexts' = got.contexts
           /\ emitted' = got.emitted
           /\ conn' = [conn EXCEPT ![c] =
                         [NewConn EXCEPT !.state = "open", !.req = req,
                                         !.ctx = got.ctx, !.created = 1]]
           /\ steps' = got.steps \o
                  <<"serverFactory", "initialize", "onDidCloseConnection",
                    "emit CONNECTION_CREATED", "addEndpoint", "listen">>
    /\ UNCHANGED <<call, limiterVars, notified, resolved>>

\* GitpodJsonRpcConnectionHandler.onConnection with
\* WebsocketConnectionManager.createProxyTarget as its target factory:
\* connection c arrives with request req
OnConnection(c, req) ==
    /\ conn[c].state = "new"
    /\ LET got == GetOrCreateClientContext(req)
       IN  /\ servers' = [got.servers EXCEPT ![got.ctx] = AddEndpoint(@, Uuid(c))]
           /\ clientId' = got.clientId
           /\ contexts' = got.contexts
           /\ emitted' = got.emitted
           /\ conn' = [conn EXCEPT ![c] =
                         [NewConn EXCEPT !.state = "open", !.req = req,
                                         !.ctx = got.ctx, !.created = 1]]
           /\ steps' = got.steps \o
                  <<"serverFactory", "initialize", "onDidCloseConnection",
                    "addEndpoint", "emit CONNECTION_CREATED", "listen">>
    /\ UNCHANGED <<call, limiterVars, notified, resolved>>

\* a close handler that evaluates the context for emptiness before it
\* removes the endpoint
OnDidCloseConnection_EmptinessFirst(c) ==
    /\ conn[c].state = "open"
    /\ LET ctx == conn[c].ctx
           empty == HasNoEndpointsLeft(servers[ctx])
       IN  /\ conn' = [conn EXCEPT ![c].state = "closed",
                                   ![c].disposed = @ + 1,
                                   ![c].closed = @ + 1]
           /\ servers' = [servers EXCEPT ![ctx] = RemoveEndpoint(@, Uuid(c))]
           /\ contexts' = IF empty THEN MapDelete(contexts, clientId[ctx]) ELSE contexts
           /\ emitted' = IF empty THEN [emitted EXCEPT ![ctx].closed = @ + 1] ELSE emitted
           /\ steps' = <<"dispose", "emit CONNECTION_CLOSED", "hasNoEndpointsLeft">> \o
                       (IF empty THEN <<"contexts.delete", "emit CLIENT_CONTEXT_CLOSED">>
                        ELSE <<>>) \o <<"removeEndpoint">>
    /\ UNCHANGED <<clientId, call, limiterVars, notified, resolved>>

\* the handler createProxyTarget binds to client.onDidCloseConnection:
\* the close event of connection c runs
OnDidCloseConnection(c) ==
    /\ conn[c].state = "open"
    /\ LET ctx == conn[c].ctx
           left == RemoveEndpoint(servers[ctx], Uuid(c))
           empty == HasNoEndpointsLeft(left)
       IN  /\ conn' = [conn EXCEPT ![c].state = "closed",
                                   ![c].disposed = @ + 1,
                                   ![c].closed = @ + 1]
           /\ servers' = [servers EXCEPT ![ctx] = left]
           /\ contexts' = IF empty THEN MapDelete(contexts, clientId[ctx]) ELSE contexts
           /\ emitted' = IF empty THEN [emitted EXCEPT ![ctx].closed = @ + 1] ELSE emitted
           /\ steps' = <<"dispose", "emit CONNECTION_CLOSED", "removeEndpoint",
                         "hasNoEndpointsLeft">> \o
                       (IF empty THEN <<"contexts.delete", "emit CLIENT_CONTEXT_CLOSED">>
                        ELSE <<>>)
    /\ UNCHANGED <<clientId, call, limiterVars, notified, resolved>>

\* the steps of createProxyTarget at which an exception can leave it after
\* getOrCreateClientContext has run
OpenFaults == {"serverFactory", "initialize"}

\* connection c arrives with request req and serverFactory() or
\* gitpodServer.initialize() throws: the exception leaves createProxyTarget
\* and onConnection, no close handler is bound and listen is never called
OnConnectionFails(c, req, at) ==
    /\ conn[c].state = "new"
    /\ LET got == GetOrCreateClientContext(req)
       IN  /\ servers' = got.servers
           /\ clientId' = got.clientId
           /\ contexts' = got.contexts
           /\ emitted' = got.emitted
           /\ conn' = [conn EXCEPT ![c] =
                         [NewConn EXCEPT !.state = "failed", !.req = req,
                                         !.ctx = got.ctx]]
           /\ steps' = got.steps \o
                  (IF at = "serverFactory" THEN <<"serverFactory">>
                   ELSE <<"serverFactory", "initialize">>)
    /\ UNCHANGED <<call, limiterVars, notified, resolved>>

\* the steps of the close handler that call code which can throw before the
\* endpoint is removed
CloseFaults == {"dispose", "emit CONNECTION_CLOSED"}

\* the close event of connection c runs and gitpodServer.dispose() or an
\* observer of EVENT_CONNECTION_CLOSED throws: the exception leaves the
\* handler at that step
OnDidCloseConnectionFails(c, at) ==
    /\ conn[c].state = "open"
    /\ conn' = [conn EXCEPT ![c].state = "closed",
                            ![c].disposed = @ + 1,
                            ![c].closed = @ + (IF at = "dispose" THEN 0 ELSE 1)]
    /\ steps' = IF at = "dispose" THEN <<"dispose">>
                ELSE <<"dispose", "emit CONNECTION_CLOSED">>
    /\ UNCHANGED <<servers, clientId, contexts, emitted, call, limiterVars,
                   notified, resolved>>

\* ------------------------------------------------------ values and errors
\* a JavaScript value that is undefined, a string or a number
JsUndefined == [t |-> "undefined", s |-> "", n |-> 0]
JsStr(s) == [t |-> "string", s |-> s, n |-> 0]
JsNum(n) == [t |-> "number", s |-> "", n |-> n]

\* String(n) of a number
JsString(n) == JsStr(ToString(n))

\* JavaScript truthiness: the empty string and 0 are falsy
Truthy(v) ==
    CASE v.t = "string" -> v.s # ""
      [] v.t = "number" -> v.n # 0
      [] OTHER -> FALSE

\* a || b
JsOr(a, b) == IF Truthy(a) THEN a ELSE b

\* Math.round(ms / 1000) of a wait ms >= 0: halves round up
MathRound(ms) == (ms + 500) \div 1000

TOO_MANY_REQUESTS == 429
PERMISSION_DENIED == 403
INTERNAL_SERVER_ERROR == 500
OK == 200

NoError == [class |-> "none", code |-> 0, message |-> "", data |-> JsUndefined]

\* new ResponseError(code, message, data); data holds data["Retry-After"]
ResponseError(code, message, data) ==
    [class |-> "ResponseError", code |-> code, message |-> message, data |-> data]

\* new Error(message)
Error(message) ==
    [class |-> "Error", code |-> 0, message |-> message, data |-> JsUndefined]

\* e instanceof ResponseError
IsResponseError(e) == e.class = "ResponseError"

\* ---------------------------------------------------- consumed interfaces
\* the waits (msBeforeNext) a quota rejection of the rate limiter carries
MsBeforeNext == {0, 499, 500, 1500}

\* what RateLimiter.consume settles with: it resolves, rejects with a
\* RateLimiterRes (quota), or rejects with an Error (limiter malfunction)
ConsumeOutcomes ==
    {[kind |-> "resolve", msBeforeNext |-> 0, error |-> NoError],
     [kind |-> "reject", msBeforeNext |-> 0, error |-> Error("limiter unavailable")]}
    \cup {[kind |-> "reject", msBeforeNext |-> ms, error |-> NoError] : ms \in MsBeforeNext}

NoConsume == [kind |-> "none", msBeforeNext |-> 0, error |-> NoError]

\* what a backend handler method settles with: a value, a structured
\* ResponseError, or an unexpected Error
HandlerOutcomes ==
    {[kind |-> "return", value |-> "ws1", error |-> NoError],
     [kind |-> "throw", value |-> "", error |-> ResponseError(404, "not found", JsUndefined)],
     [kind |-> "throw", value |-> "", error |-> Error("boom")]}

NoOutcome == [kind |-> "none", value |-> "", error |-> NoError]

\* GitpodJsonRpcConnectionHandler.createAccessGuard: the methods the guard
\* of a connection allows; AllAccessFunctionGuard when the request has none
CreateAccessGuard(req) ==
    IF req.functionGuard.defined THEN req.functionGuard.allow ELSE Methods

\* a guard check that allows every method
CanAccess_AllowAll(guard, method) == TRUE

\* FunctionAccessGuard.canAccess(method)
CanAccess(guard, method) == method \in guard

\* ------------------------------------------------------------- onRequest
IdleCall ==
    [pc |-> "idle", conn |-> 0, method |-> "", stages |-> <<>>,
     spanStarted |-> 0, spanFinished |-> 0, status |-> <<>>,
     consumed |-> NoConsume, handled |-> NoOutcome, result |-> NoOutcome]

\* the value of "Retry-After": String(Math.round(msBeforeNext / 1000)) || 1
RetryAfter(ms) == JsOr(JsString(MathRound(ms)), JsNum(1))

\* a catch clause that rethrows every rejection of consume as it is
RateLimitCatch_Rethrow(rlRejected) ==
    IF rlRejected.error.class = "Error"
    THEN rlRejected.error
    ELSE [class |-> "RateLimiterRes", code |-> 0, message |-> "", data |-> JsUndefined]

\* the catch clause of the rate limiting stage: what it throws for the
\* rejection rlRejected of consume
RateLimitCatch(rlRejected) ==
    IF rlRejected.error.class = "Error"
    THEN rlRejected.error
    ELSE ResponseError(TOO_MANY_REQUESTS, "too many requests",
                       RetryAfter(rlRejected.msBeforeNext))

\* a catch clause that records 500 whatever the error
CatchStatus_Always500(e) == INTERNAL_SERVER_ERROR

\* the status code the catch clause of onRequest records for e
CatchStatus(e) ==
    IF IsResponseError(e)
    THEN e.code
    ELSE ResponseError(INTERNAL_SERVER_ERROR, "internal server error", JsUndefined).code

\* what the catch clause of onRequest throws for e
CatchThrow(e) == e

\* the catch clause of onRequest for the call record cl failing with e
Catch(cl, e) ==
    [cl EXCEPT !.status = Append(@, CatchStatus(e)),
               !.stages = Append(@, "metricsPost"),
               !.result = [kind |-> "throw", value |-> "", error |-> CatchThrow(e)]]

\* a span that is finished on the return path only, without a finally clause
Finally_OnReturnOnly(cl) ==
    IF cl.result.kind = "return"
    THEN [cl EXCEPT !.spanFinished = @ + 1,
                    !.stages = Append(@, "spanFinish"),
                    !.pc = "done"]
    ELSE [cl EXCEPT !.pc = "done"]

\* the finally clause of onRequest: ctx.span.finish()
Finally(cl) ==
    [cl EXCEPT !.spanFinished = @ + 1,
               !.stages = Append(@, "spanFinish"),
               !.pc = "done"]

\* a pipeline that calls rateLimiter.consume before it opens the span
OnRequest_ConsumeBeforeSpan(k, c, method) ==
    /\ call[k].pc = "idle"
    /\ conn[c].state = "open"
    /\ call' = [call EXCEPT ![k] =
                  [IdleCall EXCEPT !.pc = "consume", !.conn = c, !.method = method,
                                   !.spanStarted = 1,
                                   !.stages = <<"metricsPre", "rateLimit", "spanStart">>]]
    /\ UNCHANGED <<registryVars, limiterVars, notified, resolved>>

\* onRequest(method) arrives on the open connection c: pre-call metrics,
\* the child span and the call of rateLimiter.consume, up to its await
OnRequest(k, c, method) ==
    /\ call[k].pc = "idle"
    /\ conn[c].state = "open"
    /\ call' = [call EXCEPT ![k] =
                  [IdleCall EXCEPT !.pc = "consume", !.conn = c, !.method = method,
                                   !.spanStarted = 1,
                                   !.stages = <<"metricsPre", "spanStart", "rateLimit">>]]
    /\ UNCHANGED <<registryVars, limiterVars, notified, resolved>>

\* the access guard stage and the call of the handler method, up to its await
AccessGuardAndCall(cl) ==
    LET checked == [cl EXCEPT !.stages = Append(@, "accessGuard")]
    IN  IF ~CanAccess(CreateAccessGuard(conn[cl.conn].req), cl.method)
        THEN Finally(Catch(checked,
                 ResponseError(PERMISSION_DENIED,
                               "Request " \o cl.method \o " is not allowed", JsUndefined)))
        ELSE [checked EXCEPT !.stages = Append(@, "dispatch"), !.pc = "dispatch"]

\* onRequest from the await of rateLimiter.consume, settled with outcome,
\* up to its next await or its end
AfterConsume(cl, outcome) ==
    LET settled == [cl EXCEPT !.consumed = outcome]
    IN  IF outcome.kind = "resolve"
        THEN AccessGuardAndCall(settled)
        ELSE Finally(Catch(settled, RateLimitCatch(outcome)))

\* the await of rateLimiter.consume settles with outcome
ConsumeSettles(k, outcome) ==
    /\ call[k].pc = "consume"
    /\ call' = [call EXCEPT ![k] = AfterConsume(call[k], outcome)]
    /\ UNCHANGED <<registryVars, limiterVars, notified, resolved>>

\* ----------------------------------------------------------- rate limiter
\* a rate limiter keyed by connection instead of by client id
CreateRateLimiter_PerConnection(id, c) == id \o "#" \o ToString(c)

\* GitpodJsonRpcConnectionHandler.createRateLimiter(clientId, req): the key
\* (user) the limiter of connection c consumes under
CreateRateLimiter(id, c) == id

\* the limiter key of the proxy factory onConnection built for connection c
RateLimiterUser(c) == CreateRateLimiter(FromRequest(conn[c].req).id, c)

\* the count a map holds under key, 0 when it has none
CountOf(map, key) == IF key \in DOMAIN map THEN map[key] ELSE 0

\* the calls of client id counted in the window, none when it made none
WindowOf(map, id) == IF id \in DOMAIN map THEN map[id] ELSE [calls |-> 0, dispatches |-> 0]

\* UserRateLimiter.consume(key, method): one more point under key; it
\* resolves while the points stay within the limit and rejects for quota,
\* with a wait of ms, beyond it
UserRateLimiterConsume(key, ms) ==
    LET consumedPoints == CountOf(points, key) + 1
    IN  [points |-> MapSet(points, key, consumedPoints),
         outcome |-> IF consumedPoints <= PointsLimit
                     THEN [kind |-> "resolve", msBeforeNext |-> 0, error |-> NoError]
                     ELSE [kind |-> "reject", msBeforeNext |-> ms, error |-> NoError]]

\* the waits the quota rejections of the quota specification carry
QuotaMs == {1500}

\* the limiter malfunctions: consume rejects with an Error
LimiterFault ==
    [kind |-> "reject", msBeforeNext |-> 0, error |-> Error("limiter unavailable")]

\* the await of rateLimiter.consume settles with what UserRateLimiter
\* decides for the client of the call's connection
LimiterSettles(k, ms) ==
    /\ call[k].pc = "consume"
    /\ LET id == FromRequest(conn[call[k].conn].req).id
           key == RateLimiterUser(call[k].conn)
           consumed == UserRateLimiterConsume(key, ms)
           next == AfterConsume(call[k], consumed.outcome)
       IN  /\ CountOf(points, key) <= PointsLimit
           /\ points' = consumed.points
           /\ call' = [call EXCEPT ![k] = next]
           /\ window' = MapSet(window, id,
                  [calls |-> WindowOf(window, id).calls + 1,
                   dispatches |-> WindowOf(window, id).dispatches +
                                  (IF next.pc = "dispatch" THEN 1 ELSE 0)])
    /\ UNCHANGED <<registryVars, notified, resolved>>

\* the return after the await of the handler method
Return(cl, value) ==
    [cl EXCEPT !.status = Append(@, OK),
               !.stages = Append(@, "metricsPost"),
               !.result = [kind |-> "return", value |-> value, error |-> NoError]]

\* a pipeline that tears the connection down when the handler fails
HandlerSettles_CloseOnFailure(k, outcome) ==
    /\ call[k].pc = "dispatch"
    /\ LET cl == [call[k] EXCEPT !.handled = outcome]
       IN  call' = [call EXCEPT ![k] =
                      IF outcome.kind = "return"
                      THEN Finally(Return(cl, outcome.value))
                      ELSE Finally(Catch(cl, outcome.error))]
    /\ conn' = IF outcome.kind = "return" THEN conn
               ELSE [conn EXCEPT ![call[k].conn].state = "closed",
                                 ![call[k].conn].disposed = @ + 1]
    /\ UNCHANGED <<servers, clientId, contexts, emitted, steps,
                   limiterVars, notified, resolved>>

\* the await of this.target[method](ctx, ...args) settles with outcome
HandlerSettles(k, outcome) ==
    /\ call[k].pc = "dispatch"
    /\ LET cl == [call[k] EXCEPT !.handled = outcome]
       IN  call' = [call EXCEPT ![k] =
                      IF outcome.kind = "return"
                      THEN Finally(Return(cl, outcome.value))
                      ELSE Finally(Catch(cl, outcome.error))]
    /\ UNCHANGED <<registryVars, limiterVars, notified, resolved>>

\* the promise of onRequest has settled and its reply is sent
Reply(k) ==
    /\ call[k].pc = "done"
    /\ call' = [call EXCEPT ![k] = IdleCall]
    /\ UNCHANGED <<registryVars, limiterVars, notified, resolved>>

\* no notification has arrived yet
NoNotification ==
    [conn |-> 0, method |-> "", dispatched |-> FALSE, result |-> NoOutcome]

\* RPCErrorCodes.InvalidRequest of vscode-jsonrpc
InvalidRequest == -32600

\* a notification handler that calls the handler method, as the inherited
\* JsonRpcProxyFactory.onNotification does
OnNotification_Dispatch(c, method) ==
    /\ conn[c].state = "open"
    /\ notified' = [conn |-> c, method |-> method, dispatched |-> TRUE,
                    result |-> NoOutcome]
    /\ UNCHANGED <<registryVars, call, limiterVars, resolved>>

\* GitpodJsonRpcProxyFactory.onNotification: a one-way notification for
\* method arrives on the open connection c
OnNotification(c, method) ==
    /\ conn[c].state = "open"
    /\ notified' = [conn |-> c, method |-> method, dispatched |-> FALSE,
                    result |-> [kind |-> "throw", value |-> "",
                                error |-> ResponseError(InvalidRequest,
                                    "notifications are not supported", JsUndefined)]]
    /\ UNCHANGED <<registryVars, call, limiterVars, resolved>>

\* ClientMetadata.fromRequest applied to a request with the user id, the
\* session id and the user-agent header given; the latest two are kept
Resolve(userId, sessionId, userAgent) ==
    /\ resolved' = Append(IF Len(resolved) < 2 THEN resolved ELSE Tail(resolved),
                          [userId |-> userId, sessionId |-> sessionId,
                           userAgent |-> userAgent,
                           metadata |-> FromWithType(userId, sessionId,
                                                     GetClientType(userAgent))])
    /\ UNCHANGED <<registryVars, call, limiterVars, notified>>

Init ==
    /\ conn = [c \in Conns |-> NewConn]
    /\ servers = <<>>
    /\ clientId = <<>>
    /\ contexts = <<>>
    /\ emitted = <<>>
    /\ steps = <<>>
    /\ call = [k \in Calls |-> IdleCall]
    /\ points = <<>>
    /\ window = <<>>
    /\ notified = NoNotification
    /\ resolved = <<>>

Next ==
    \/ \E c \in 1..MaxConns, req \in Requests : OnConnection(c, req)
    \/ \E c \in 1..MaxConns : OnDidCloseConnection(c)

Spec == Init /\ [][Next]_vars

\* connections and the calls on them
NextPipeline ==
    \/ \E c \in 1..PipeConns, req \in PipeRequests : OnConnection(c, req)
    \/ \E c \in 1..PipeConns : OnDidCloseConnection(c)
    \/ \E k \in Calls, c \in 1..PipeConns, method \in Methods : OnRequest(k, c, method)
    \/ \E k \in Calls, outcome \in ConsumeOutcomes : ConsumeSettles(k, outcome)
    \/ \E k \in Calls, outcome \in HandlerOutcomes : HandlerSettles(k, outcome)
    \/ \E k \in Calls : Reply(k)

SpecPipeline == Init /\ [][NextPipeline]_vars

\* connections whose setup or close handling can throw
NextFaults ==
    \/ \E c \in 1..FaultConns, req \in Requests : OnConnection(c, req)
    \/ \E c \in 1..FaultConns : OnDidCloseConnection(c)
    \/ \E c \in 1..FaultConns, req \in Requests, at \in OpenFaults :
          OnConnectionFails(c, req, at)
    \/ \E c \in 1..FaultConns, at \in CloseFaults : OnDidCloseConnectionFails(c, at)

SpecFaults == Init /\ [][NextFaults]_vars

\* identity resolution applied to requests
NextMetadata ==
    \E userId \in MetaUsers, sessionId \in MetaSessions, userAgent \in UserAgents :
        Resolve(userId, sessionId, userAgent)

SpecMetadata == Init /\ [][NextMetadata]_vars

\* the pipeline with inbound notifications next to the calls
NextNotification ==
    \/ NextPipeline
    \/ \E c \in 1..PipeConns, method \in Methods : OnNotification(c, method)

SpecNotification == Init /\ [][NextNotification]_vars

\* the connections of one identity and their calls, with the quota of
\* UserRateLimiter deciding what consume settles with
NextQuota ==
    \/ \E c \in 1..QuotaConns, req \in QuotaRequests : OnConnection(c, req)
    \/ \E c \in 1..QuotaConns : OnDidCloseConnection(c)
    \/ \E k \in Calls, c \in 1..QuotaConns, method \in Methods : OnRequest(k, c, method)
    \/ \E k \in Calls, ms \in QuotaMs : LimiterSettles(k, ms)
    \/ \E k \in Calls : ConsumeSettles(k, LimiterFault)
    \/ \E k \in Calls, outcome \in HandlerOutcomes : HandlerSettles(k, outcome)
    \/ \E k \in Calls : Reply(k)

SpecQuota == Init /\ [][NextQuota]_vars

\* ================================================================ claims
\* the client id connection c resolved to
IdOf(c) == FromRequest(conn[c].req).id

\* connection c is open: its endpoint was registered and its close event
\* has not run
IsOpen(c) == conn[c].state = "open"

\* C1: the registry holds a context under an id if and only if at least one
\* connection of that identity is currently open (the registry is a map, so
\* it holds at most one context per id).
C1_ContextIffOpen ==
    \A id \in ClientIds :
        (id \in DOMAIN contexts) <=> (\E c \in Conns : IsOpen(c) /\ IdOf(c) = id)

\* C2: closing one connection removes exactly that connection's endpoint
\* from its context and leaves every other endpoint registered; while
\* endpoints are left the context stays in the registry.
C2_CloseRemovesOnlyItsEndpoint ==
    [][\A c \in Conns :
          (IsOpen(c) /\ conn'[c].state = "closed") =>
              LET o == conn[c].ctx
              IN  /\ servers'[o] = SelectSeq(servers[o], LAMBDA u : u # Uuid(c))
                  /\ (servers'[o] # <<>> => MapGet(contexts', clientId[o]) = o)]_vars

\* C3: for every context object "context created" is emitted exactly once
\* and "context closed" at most once, and only by the close that takes its
\* endpoint list from non-empty to empty.
C3_ContextEventsOnce ==
    [][\A o \in 1..Len(emitted') :
          /\ emitted'[o].created = 1
          /\ emitted'[o].closed <= 1
          /\ (o \in Objects /\ emitted'[o].closed > emitted[o].closed)
                => (servers[o] # <<>> /\ servers'[o] = <<>>)]_vars

\* C4: every open connection of an identity is bound to the one context
\* object the registry currently holds under that id, so no two open
\* connections of one id are bound to distinct context objects.
C4_OpenConnectionsShareRegisteredContext ==
    \A c \in Conns :
        IsOpen(c) => MapGet(contexts, IdOf(c)) = conn[c].ctx

\* the consume of call record cl was rejected for quota
QuotaRejected(cl) == cl.consumed.kind = "reject" /\ cl.consumed.error = NoError

\* stage is among the stages call record cl has run
Ran(cl, stage) == \E i \in 1..Len(cl.stages) : cl.stages[i] = stage

\* C5: a call whose consume is rejected for quota never reaches the access
\* guard or the backend handler and fails with the too-many-requests error.
C5_RateLimitedNeverDispatched ==
    \A k \in Calls :
        QuotaRejected(call[k]) =>
            /\ ~Ran(call[k], "accessGuard")
            /\ ~Ran(call[k], "dispatch")
            /\ call[k].handled = NoOutcome
            /\ call[k].pc = "done"
            /\ call[k].result.kind = "throw"
            /\ IsResponseError(call[k].result.error)
            /\ call[k].result.error.code = 429
            /\ call[k].result.error.message = "too many requests"

\* a call rejected for quota has completed
C5_Witness ==
    \E k \in Calls : QuotaRejected(call[k]) /\ call[k].pc = "done"

\* Number(v) of a JavaScript value holding a number or its decimal string
JsNumberOf(v) ==
    IF v.t = "number" THEN v.n
    ELSE IF \E n \in 0..9 : ToString(n) = v.s
    THEN CHOOSE n \in 0..9 : ToString(n) = v.s
    ELSE -1

\* C6: the retry-after value of a quota rejection is the wait in seconds,
\* rounded to the nearest integer, with a minimum of 1.
C6_RetryAfterAtLeastOne ==
    \A k \in Calls :
        (QuotaRejected(call[k]) /\ call[k].pc = "done") =>
            LET seconds == (call[k].consumed.msBeforeNext + 500) \div 1000
                retry == JsNumberOf(call[k].result.error.data)
            IN  /\ retry >= 1
                /\ retry = IF seconds < 1 THEN 1 ELSE seconds

\* the function guard of the connection of call record cl forbids its method
Forbidden(cl) ==
    /\ conn[cl.conn].req.functionGuard.defined
    /\ cl.method \notin conn[cl.conn].req.functionGuard.allow

\* C7: the access guard is evaluated on every call that passes rate
\* limiting; a forbidden call never reaches the handler and fails with
\* PermissionDenied; an allowed call whose handler returns a value yields
\* exactly that value.
C7_AccessGuardEveryCall ==
    \A k \in Calls :
        call[k].consumed.kind = "resolve" =>
            /\ Ran(call[k], "accessGuard")
            /\ Forbidden(call[k]) =>
                  /\ ~Ran(call[k], "dispatch")
                  /\ call[k].pc = "done"
                  /\ call[k].result.kind = "throw"
                  /\ IsResponseError(call[k].result.error)
                  /\ call[k].result.error.code = 403
            /\ ~Forbidden(call[k]) => Ran(call[k], "dispatch")
            /\ call[k].handled.kind = "return" =>
                  /\ call[k].pc = "done"
                  /\ call[k].result = call[k].handled

\* one call was denied by the access guard, another returned its value
C7_Witness ==
    \E k1, k2 \in Calls :
        /\ call[k1].pc = "done" /\ Forbidden(call[k1])
        /\ call[k1].consumed.kind = "resolve"
        /\ call[k2].pc = "done" /\ call[k2].handled.kind = "return"

\* call record cl met an unexpected fault, of the limiter or of the handler
UnexpectedFault(cl) ==
    \/ cl.consumed.error.class = "Error"
    \/ cl.handled.error.class = "Error"

\* C8: an unexpected fault of the handler or of the rate limiter is never
\* what the pipeline delivers: the call fails with the generic internal
\* error (code 500), not with the original fault object.
C8_FaultsBecomeInternalError ==
    \A k \in Calls :
        (call[k].pc = "done" /\ UnexpectedFault(call[k])) =>
            /\ call[k].result.kind = "throw"
            /\ IsResponseError(call[k].result.error)
            /\ call[k].result.error.code = 500
            /\ call[k].result.error.message = "internal server error"

\* C9: every call opens exactly one span, closes it exactly once on every
\* exit path, and never before its own dispatch has completed.
C9_SpanClosedOnceAfterDispatch ==
    \A k \in Calls :
        /\ call[k].pc # "idle" => call[k].spanStarted = 1
        /\ call[k].pc \in {"consume", "dispatch"} => call[k].spanFinished = 0
        /\ call[k].pc = "done" =>
              /\ call[k].spanFinished = 1
              /\ call[k].stages[Len(call[k].stages)] = "spanFinish"
              /\ Ran(call[k], "dispatch") => call[k].handled # NoOutcome

\* a call ended on an unexpected handler fault while a sibling call on the
\* same connection is still being dispatched
C9_Witness ==
    \E k1, k2 \in Calls :
        /\ k1 # k2 /\ call[k1].conn = call[k2].conn
        /\ call[k1].pc = "done" /\ call[k1].handled.error.class = "Error"
        /\ call[k2].pc = "dispatch"

\* the status code the claim gives call record cl
ExpectedStatus(cl) ==
    IF cl.handled.kind = "return" THEN 200
    ELSE IF QuotaRejected(cl) THEN 429
    ELSE IF cl.consumed.kind = "resolve" /\ Forbidden(cl) THEN 403
    ELSE IF cl.handled.error.class = "ResponseError" THEN cl.handled.error.code
    ELSE 500

\* C10: every call records exactly one post-call status code: 200 when the
\* handler returned, the code of the structured error it failed with, 500
\* for any other fault; none before it completes.
C10_OneStatusPerCall ==
    \A k \in Calls :
        /\ call[k].pc # "done" => call[k].status = <<>>
        /\ call[k].pc = "done" => call[k].status = <<ExpectedStatus(call[k])>>

\* completed calls with a structured handler error and with a limiter fault
C10_Witness ==
    \E k1, k2 \in Calls :
        /\ call[k1].pc = "done" /\ call[k1].handled.error.class = "ResponseError"
        /\ call[k2].pc = "done" /\ call[k2].consumed.error.class = "Error"

\* C11: the quota is per client id, not per connection: over any number of
\* connections of one identity at most PointsLimit calls are dispatched to
\* handlers in the window, and every call the limiter receives after
\* PointsLimit calls of that identity fails with the too-many-requests error
\* and causes no dispatch, whatever connection it arrives on.
C11_QuotaPerClient ==
    [][/\ \A id \in DOMAIN window' : window'[id].dispatches <= PointsLimit
       /\ \A k \in Calls :
             (/\ call[k].pc = "consume"
              /\ call'[k].pc # "consume"
              /\ points' # points
              /\ WindowOf(window, IdOf(call[k].conn)).calls >= PointsLimit)
             => /\ call'[k].pc = "done"
                /\ call'[k].result.kind = "throw"
                /\ call'[k].result.error.class = "ResponseError"
                /\ call'[k].result.error.code = 429
                /\ \A i \in 1..Len(call'[k].stages) : call'[k].stages[i] # "dispatch"
                /\ WindowOf(window', IdOf(call[k].conn)).dispatches
                      = WindowOf(window, IdOf(call[k].conn)).dispatches]_vars

\* a call on one connection was rejected for quota while a call of the same
\* identity that was let through is being dispatched on another connection
C11_Witness ==
    \E k1, k2 \in Calls :
        /\ call[k1].pc = "done" /\ call[k1].result.error.code = 429
        /\ call[k2].pc = "dispatch"
        /\ call[k1].conn # call[k2].conn
        /\ IdOf(call[k1].conn) = IdOf(call[k2].conn)
        /\ WindowOf(window, IdOf(call[k1].conn)).dispatches = PointsLimit

\* C12: every inbound notification is rejected with the invalid-request
\* error and runs no pipeline stage: no call of the pipeline is started or
\* advanced by it, no quota is consumed and the handler is not called.
C12_NotificationsRejected ==
    [][notified' # notified =>
          /\ notified'.result.kind = "throw"
          /\ notified'.result.error.class = "ResponseError"
          /\ notified'.result.error.code = -32600
          /\ notified'.result.error.message = "notifications are not supported"
          /\ ~notified'.dispatched
          /\ call' = call
          /\ points' = points
          /\ window' = window]_vars

\* a notification was rejected while a call of the same connection is in
\* the pipeline
C12_Witness ==
    /\ notified.result.kind = "throw"
    /\ \E k \in Calls : call[k].pc = "dispatch" /\ call[k].conn = notified.conn

\* a user id or session id is present: defined and not empty
Present(v) == v # "<undefined>" /\ v # ""

\* C13: identity resolution always succeeds and is decided by the user id
\* and the session id alone: the user id with level user when a user is
\* present, else "session-" and the session id with level session, else
\* anonymous; the client type changes neither, so requests with the same
\* user and session resolve to the same id.
C13_IdentityResolution ==
    /\ \A i \in 1..Len(resolved) :
          LET r == resolved[i]
              m == r.metadata
          IN  /\ Present(r.userId) => (m.id = r.userId /\ m.authLevel = "user")
              /\ (~Present(r.userId) /\ Present(r.sessionId))
                    => (m.id = "session-" \o r.sessionId /\ m.authLevel = "session")
              /\ (~Present(r.userId) /\ ~Present(r.sessionId))
                    => (m.id = "anonymous" /\ m.authLevel = "anonymous")
    /\ \A i, j \in 1..Len(resolved) :
          (resolved[i].userId = resolved[j].userId
              /\ resolved[i].sessionId = resolved[j].sessionId)
          => (resolved[i].metadata.id = resolved[j].metadata.id
              /\ resolved[i].metadata.authLevel = resolved[j].metadata.authLevel)

\* two requests of one user and session, with a session id next to the
\* user, resolved with different client types
C13_Witness ==
    /\ Len(resolved) = 2
    /\ Present(resolved[1].userId) /\ Present(resolved[1].sessionId)
    /\ resolved[1].userId = resolved[2].userId
    /\ resolved[1].sessionId = resolved[2].sessionId
    /\ resolved[1].metadata.type = "browser"
    /\ resolved[2].metadata.type = "go-client"

\* the endpoints of context object o, as a set
EndpointsOf(o) == { servers[o][i] : i \in 1..Len(servers[o]) }

\* C14: teardown is best-effort: also when dispose or a "connection closed"
\* observer raises, the endpoint of a closed connection is removed from its
\* context and the context is evicted from the registry once it is empty.
C14_TeardownCompletes ==
    \A c \in Conns :
        conn[c].state = "closed" =>
            /\ Uuid(c) \notin EndpointsOf(conn[c].ctx)
            /\ servers[conn[c].ctx] = <<>>
                  => MapGet(contexts, clientId[conn[c].ctx]) # conn[c].ctx

\* C15: a failure of a pipeline stage ends that call only: the step in
\* which a call fails leaves the connections (their state and their
\* handlers' disposal), the endpoint lists, the registry and every other
\* call as they were.
C15_FailureEndsThatCallOnly ==
    [][\A k \in Calls :
          (/\ call[k].pc \in {"consume", "dispatch"}
           /\ call'[k].pc = "done"
           /\ call'[k].result.kind = "throw")
          => /\ conn' = conn
             /\ servers' = servers
             /\ clientId' = clientId
             /\ contexts' = contexts
             /\ emitted' = emitted
             /\ \A j \in Calls \ {k} : call'[j] = call[j]]_vars

\* a call has failed on an unexpected handler fault while a call on another
\* connection is in flight and both connections are still open
C15_Witness ==
    \E k1, k2 \in Calls :
        /\ call[k1].pc = "done" /\ call[k1].handled.error.class = "Error"
        /\ call[k2].pc = "dispatch"
        /\ call[k1].conn # call[k2].conn
        /\ IsOpen(call[k1].conn) /\ IsOpen(call[k2].conn)

\* the stages of onRequest in their order
StageOrder ==
    <<"metricsPre", "spanStart", "rateLimit", "accessGuard", "dispatch",
      "metricsPost", "spanFinish">>

\* the stages of a call that got through the first n stages and, when it
\* has ended, through post-metrics and span close
StagesThrough(n, ended) ==
    SubSeq(StageOrder, 1, n) \o (IF ended THEN SubSeq(StageOrder, 6, 7) ELSE <<>>)

\* C16: the stages of every call run in the order pre-metrics, span start,
\* rate limiting, access guard, dispatch, post-metrics, span close; a
\* failing stage skips the later ones except post-metrics and span close,
\* also while other calls are in flight; a call the access guard denies
\* has consumed quota and has opened and closed its span.
C16_StageOrder ==
    \A k \in Calls :
        LET cl == call[k]
        IN  /\ cl.pc = "consume" => cl.stages = StagesThrough(3, FALSE)
            /\ cl.pc = "dispatch" => cl.stages = StagesThrough(5, FALSE)
            /\ (cl.pc = "done" /\ cl.consumed.kind = "reject")
                  => cl.stages = StagesThrough(3, TRUE)
            /\ (cl.pc = "done" /\ cl.consumed.kind = "resolve" /\ Forbidden(cl))
                  => /\ cl.stages = StagesThrough(4, TRUE)
                     /\ CountOf(points, IdOf(cl.conn)) >= 1
                     /\ cl.spanStarted = 1
                     /\ cl.spanFinished = 1
                     /\ cl.result.error.code = 403
            /\ (cl.pc = "done" /\ cl.handled # NoOutcome)
                  => cl.stages = StagesThrough(5, TRUE)

\* a call was denied by the access guard while another call on the same
\* connection is being dispatched
C16_Witness ==
    \E k1, k2 \in Calls :
        /\ call[k1].pc = "done" /\ call[k1].consumed.kind = "resolve"
        /\ Forbidden(call[k1])
        /\ call[k2].pc = "dispatch"
        /\ call[k1].conn = call[k2].conn

\* step a comes before step b in the sequence of steps seq
Before(seq, a, b) ==
    \E i, j \in 1..Len(seq) : i < j /\ seq[i] = a /\ seq[j] = b

C18_CloseOrder ==
    /\ \A c \in Conns :
          /\ conn[c].state = "closed" => conn[c].disposed = 1
          /\ conn[c].state # "closed" => conn[c].disposed = 0
    /\ (\E i \in 1..Len(steps) : steps[i] = "hasNoEndpointsLeft")
          => /\ Before(steps, "dispose", "hasNoEndpointsLeft")
             /\ Before(steps, "removeEndpoint", "hasNoEndpointsLeft")
             /\ Before(steps, "emit CONNECTION_CLOSED", "hasNoEndpointsLeft")
    /\ (\E i \in 1..Len(steps) : steps[i] = "contexts.delete")
          => /\ Before(steps, "hasNoEndpointsLeft", "contexts.delete")
             /\ Before(steps, "hasNoEndpointsLeft", "emit CLIENT_CONTEXT_CLOSED")

\* every connection has closed and the latest close evicted its context
C18_Witness ==
    /\ \E i \in 1..Len(steps) : steps[i] = "contexts.delete"
    /\ \A c \in 1..FaultConns : conn[c].state = "closed"

\* C19: the close of a connection that belonged to an old context, after a
\* reconnect has created a new context object under the same id, does not
\* delete the new context from the registry and emits "context closed" for
\* no context that connections are still open in.
C19_CloseEvictsOwnContextOnly ==
    [][\A c \in Conns :
          (/\ IsOpen(c) /\ conn'[c].state = "closed"
           /\ MapGet(contexts, IdOf(c)) # NoObject
           /\ MapGet(contexts, IdOf(c)) # conn[c].ctx)
          => /\ MapGet(contexts', IdOf(c)) = MapGet(contexts, IdOf(c))
             /\ \A o \in Objects :
                   emitted'[o].closed > emitted[o].closed
                   => \A c2 \in Conns :
                         conn'[c2].state = "open" => conn'[c2].ctx # o]_vars

\* C20: a context the registry references has a non-empty endpoint list,
\* also after serverFactory or initialize has failed for the first
\* connection of an identity.
C20_RegisteredContextNonEmpty ==
    \A id \in DOMAIN contexts : servers[contexts[id]] # <<>>

====
